---------------------------- MODULE Spec2Model ----------------------------
(***************************************************************************)
(* A model of the ingestion-and-retrieval pipeline of opensearch_rag:      *)
(*   - RedisMetadataService   (src/src/app/metadata/redis_service.py)      *)
(*   - VectorStore            (src/src/app/loader/vector_store.py)         *)
(*   - DocumentProcessor      (src/src/app/loader/document_processor.py)   *)
(*   - handle_file_upload     (src/ui/actions.py)                          *)
(*   - search                 (src/src/app/rag.py)                         *)
(* Every coroutine is cut at its awaits on a backend (Redis, OpenSearch):  *)
(* between two awaits the code of one coroutine runs without interleaving. *)
(***************************************************************************)
EXTENDS Integers, Sequences, FiniteSets, TLC

(***************************************************************************)
(* Bounds of the model.                                                    *)
(***************************************************************************)
NClients == 2        \* coroutines calling the metadata service concurrently
NHashes == 2         \* distinct document ids (content hashes)
MaxCalls == 2        \* calls of the metadata service in one run of its clients

MaxFiles == 2        \* files in one upload
NPaths == 2          \* distinct file paths
MaxPages == 2        \* pages of a document
MaxChunks == 4       \* stitched chunks of a page
UploadPages == 1     \* pages of a document in an upload of several files
UploadChunks == 3    \* chunks of a page in an upload of several files

NStores == 2         \* VectorStore instances constructed against one backend
NDims == 2           \* distinct values of config.embedding_size
MaxEnsures == 3      \* calls of _ensure_index in one run
NTexts == 3          \* distinct chunk texts the retrievers return
MaxScore == 1        \* largest metadata score
MaxResults == 3      \* results of both retrievers together
WideTexts == 6       \* distinct texts in full-length result lists
SplitPages == 2      \* pages of a document that is chunked
SplitPieces == 2     \* pieces the text splitter cuts a page into
SamePages == 1       \* pages of a document that is uploaded again
SamePieces == 2      \* pieces of a page of such a document
TopResults == 6      \* results of a search that finds more than the context takes

Clients == 1..NClients
Stores == 1..NStores
EmbeddingSizes == 1..NDims
Texts == 1..NTexts
Scores == 0..MaxScore
Hashes == 1..NHashes
Paths == 1..NPaths

\* the metadata-service calls of the ingestion pipeline run in frame 0
Uploader == 0

\* one more than the batch_size of the code
batch_sizeMutant == 3 + 1

\* batch_size of process_page_parallel
batch_size == 3

None == "None"

VARIABLES
    redis,              \* RedisMetadataService._redis
    kv,                 \* the keys doc_metadata:<doc_id> and their values
    indexed_documents,  \* the Redis set 'indexed_documents'
    mcall,              \* per client: the frame of its metadata-service call
    calls,              \* how many calls the clients have made
    up,                 \* the frame of handle_file_upload
    ld,                 \* the frame of load_documents
    pp,                 \* the frame of process_page_parallel
    progress,           \* the last progress value handle_file_upload received
    emitted,            \* how many progress values it received for this file
    index,              \* the OpenSearch index: <<>> when absent, else <<mapping>>
    ecall,              \* per VectorStore: the frame of its _ensure_index call
    ensures,            \* how many _ensure_index calls were made
    sv,                 \* the frame of rag.search
    sp,                 \* the frame of the chunking of a document's pages
    content,            \* the pages of pieces in the uploaded bytes, when fixed
    store,              \* per content hash: the units in the vector index
    ui                  \* the documents list of the UI and its selected row

metaVars == <<redis, kv, indexed_documents, mcall, calls>>

ingestVars == <<up, ld, pp, progress, emitted>>

indexVars == <<index, ecall, ensures>>

searchVars == <<sv>>

splitVars == <<sp>>

corpusVars == <<content, store>>

uiVars == <<ui>>

\* what a step of a client of the metadata service leaves alone
clientRest == <<calls, up, ld, pp, progress, emitted, index, ecall, ensures, sv, sp, content, store, ui>>

vars == <<redis, kv, indexed_documents, mcall, calls,
          up, ld, pp, progress, emitted, index, ecall, ensures, sv, sp, content, store,
          ui>>

(***************************************************************************)
(* DocumentMetadata and its JSON form.                                     *)
(***************************************************************************)
DocumentMetadata(title, pages, chunks, hash) ==
    [title |-> title, page_count |-> pages, chunk_count |-> chunks,
     file_hash |-> hash]

\* metadata.json(): the record as text, here the tagged tuple of its fields
ToJson(m) == <<"json", m.title, m.page_count, m.chunk_count, m.file_hash>>

\* DocumentMetadata.parse_raw(data)
ParseRaw(data) == DocumentMetadata(data[2], data[3], data[4], data[5])

\* the record a client of the service saves under doc_id
MetaSample(doc_id) == DocumentMetadata(doc_id, 1, 1, doc_id)

(***************************************************************************)
(* The frame of one call of the metadata service; a finished call's frame  *)
(* stays until the client's next call.                                     *)
(*   outcome.kind  "none" while running, "return" or "raise" at the end    *)
(*   outcome.ok    the bool returned by save / delete                      *)
(*   outcome.docs  the records returned by get (<<>> is None) / listAll    *)
(*   hitDown       history: some step of the call found the backend down   *)
(*   saveSince     history, of a delete: a save wrote doc_id after the     *)
(*                 delete issued its first command                         *)
(***************************************************************************)
NoOutcome == [kind |-> "none", ok |-> FALSE, docs |-> <<>>]
Returned(ok, docs) == [kind |-> "return", ok |-> ok, docs |-> docs]

IdleFrame ==
    [op |-> "none", pc |-> "idle", doc_id |-> 0, metadata |-> <<>>,
     doc_ids |-> {}, documents |-> <<>>, outcome |-> NoOutcome,
     hitDown |-> FALSE, saveSince |-> FALSE, visited |-> {}, read |-> {}]

\* what each operation's `except Exception` handler hands to the caller
OnErrorMutant(op) == Returned(op \in {"save", "delete"}, <<>>)

OnError(op) == Returned(FALSE, <<>>)

Finish(f, outcome) == [f EXCEPT !.pc = "done", !.outcome = outcome]

Fail(f) == [Finish(f, OnError(f.op)) EXCEPT !.hitDown = TRUE]

\* a save wrote doc_id: every delete of doc_id that has issued a command sees it
NoteSave(frames, doc_id) ==
    [d \in DOMAIN frames |->
        IF /\ frames[d].op = "delete"
           /\ frames[d].doc_id = doc_id
           /\ frames[d].pc \in {"srem", "done"}
        THEN [frames[d] EXCEPT !.saveSince = TRUE]
        ELSE frames[d]]

(***************************************************************************)
(* connect(): the client object is stored before the ping, so a failed     *)
(* ping leaves _redis set and the next call does not connect again.        *)
(***************************************************************************)
ConnectRaises(reachable) == redis = None /\ ~reachable

Connected == IF redis = None THEN "client" ELSE redis

\* `if not self._redis: await self.connect()` at the head of every operation
MetaCall(c, op, doc_id, metadata, first, reachable) ==
    /\ mcall[c].pc \in {"idle", "done"}
    /\ redis' = Connected
    /\ LET f == [IdleFrame EXCEPT !.op = op, !.doc_id = doc_id,
                                  !.metadata = metadata, !.pc = first]
       IN  mcall' = [mcall EXCEPT ![c] = IF ConnectRaises(reachable) THEN Fail(f) ELSE f]
    /\ UNCHANGED <<kv, indexed_documents>>

SaveCall(c, doc_id, metadata, reachable) ==
    MetaCall(c, "save", doc_id, metadata, "set", reachable)

GetCall(c, doc_id, reachable) ==
    MetaCall(c, "get", doc_id, <<>>, "get", reachable)

ListCall(c, reachable) ==
    MetaCall(c, "list", 0, <<>>, "smembers", reachable)

DeleteCall(c, doc_id, reachable) ==
    MetaCall(c, "delete", doc_id, <<>>, "delete", reachable)

(***************************************************************************)
(* save_document_metadata: SET, then SADD.                                 *)
(***************************************************************************)
SaveSet(c, reachable) ==
    LET f == mcall[c] IN
    /\ f.op = "save" /\ f.pc = "set"
    /\ IF reachable
       THEN /\ kv' = [h \in DOMAIN kv \cup {f.doc_id} |->
                        IF h = f.doc_id THEN ToJson(f.metadata[1]) ELSE kv[h]]
            /\ mcall' = NoteSave([mcall EXCEPT ![c].pc = "sadd"], f.doc_id)
       ELSE /\ mcall' = [mcall EXCEPT ![c] = Fail(f)]
            /\ UNCHANGED kv
    /\ UNCHANGED <<redis, indexed_documents>>

SaveSadd(c, reachable) ==
    LET f == mcall[c] IN
    /\ f.op = "save" /\ f.pc = "sadd"
    /\ IF reachable
       THEN /\ indexed_documents' = indexed_documents \cup {f.doc_id}
            /\ mcall' = NoteSave([mcall EXCEPT ![c] = Finish(f, Returned(TRUE, <<>>))],
                                 f.doc_id)
       ELSE /\ mcall' = [mcall EXCEPT ![c] = Fail(f)]
            /\ UNCHANGED indexed_documents
    /\ UNCHANGED <<redis, kv>>

(***************************************************************************)
(* get_document_metadata: GET, parse when there is data.                   *)
(***************************************************************************)
\* the value of `return DocumentMetadata.parse_raw(data) / return None`
GetValue(doc_id) ==
    IF doc_id \in DOMAIN kv THEN <<ParseRaw(kv[doc_id])>> ELSE <<>>

GetRead(c, reachable) ==
    LET f == mcall[c] IN
    /\ f.op = "get" /\ f.pc = "get"
    /\ mcall' = [mcall EXCEPT ![c] =
                    IF reachable THEN Finish(f, Returned(FALSE, GetValue(f.doc_id)))
                    ELSE Fail(f)]
    /\ UNCHANGED <<redis, kv, indexed_documents>>

(***************************************************************************)
(* get_all_documents: SMEMBERS, then one get_document_metadata per id, in  *)
(* the set's iteration order; a get that fails returns None and is skipped.*)
(*   visited   history: the ids the loop has asked for                     *)
(*   read      history: the ids whose record a get returned                *)
(***************************************************************************)
ListSmembers(c, reachable) ==
    LET f == mcall[c] IN
    /\ f.op = "list" /\ f.pc = "smembers"
    /\ mcall' = [mcall EXCEPT ![c] =
                    IF ~reachable THEN Fail(f)
                    ELSE IF indexed_documents = {} THEN Finish(f, Returned(FALSE, <<>>))
                    ELSE [f EXCEPT !.pc = "iter", !.doc_ids = indexed_documents]]
    /\ UNCHANGED <<redis, kv, indexed_documents>>

\* a read that fails ends the listing
ListNextMutant(c, reachable) ==
    LET f == mcall[c] IN
    /\ f.op = "list" /\ f.pc = "iter"
    /\ \E doc_id \in f.doc_ids :
        LET got == IF reachable THEN GetValue(doc_id) ELSE <<>>
            g == [f EXCEPT !.doc_ids = f.doc_ids \ {doc_id},
                           !.documents = f.documents \o got,
                           !.hitDown = f.hitDown \/ ~reachable,
                           !.visited = f.visited \cup {doc_id},
                           !.read = f.read \cup {d \in {doc_id} : got # <<>>}]
        IN  mcall' = [mcall EXCEPT ![c] =
                        IF ~reachable THEN Fail(g)
                        ELSE IF g.doc_ids = {} THEN Finish(g, Returned(FALSE, g.documents))
                        ELSE g]
    /\ UNCHANGED <<redis, kv, indexed_documents>>

ListNext(c, reachable) ==
    LET f == mcall[c] IN
    /\ f.op = "list" /\ f.pc = "iter"
    /\ \E doc_id \in f.doc_ids :
        LET got == IF reachable THEN GetValue(doc_id) ELSE <<>>
            g == [f EXCEPT !.doc_ids = f.doc_ids \ {doc_id},
                           !.documents = f.documents \o got,
                           !.hitDown = f.hitDown \/ ~reachable,
                           !.visited = f.visited \cup {doc_id},
                           !.read = f.read \cup {d \in {doc_id} : got # <<>>}]
        IN  mcall' = [mcall EXCEPT ![c] =
                        IF g.doc_ids = {} THEN Finish(g, Returned(FALSE, g.documents))
                        ELSE g]
    /\ UNCHANGED <<redis, kv, indexed_documents>>

(***************************************************************************)
(* delete_document_metadata: DEL, then SREM.                               *)
(***************************************************************************)
DeleteKey(c, reachable) ==
    LET f == mcall[c] IN
    /\ f.op = "delete" /\ f.pc = "delete"
    /\ IF reachable
       THEN /\ kv' = [h \in DOMAIN kv \ {f.doc_id} |-> kv[h]]
            /\ mcall' = [mcall EXCEPT ![c].pc = "srem"]
       ELSE /\ mcall' = [mcall EXCEPT ![c] = Fail(f)]
            /\ UNCHANGED kv
    /\ UNCHANGED <<redis, indexed_documents>>

DeleteSremMutant(c, reachable) ==
    LET f == mcall[c] IN
    /\ f.op = "delete" /\ f.pc = "srem"
    /\ mcall' = [mcall EXCEPT ![c] =
                    IF reachable THEN Finish(f, Returned(TRUE, <<>>)) ELSE Fail(f)]
    /\ UNCHANGED <<redis, kv, indexed_documents>>

DeleteSrem(c, reachable) ==
    LET f == mcall[c] IN
    /\ f.op = "delete" /\ f.pc = "srem"
    /\ IF reachable
       THEN /\ indexed_documents' = indexed_documents \ {f.doc_id}
            /\ mcall' = [mcall EXCEPT ![c] = Finish(f, Returned(TRUE, <<>>))]
       ELSE /\ mcall' = [mcall EXCEPT ![c] = Fail(f)]
            /\ UNCHANGED indexed_documents
    /\ UNCHANGED <<redis, kv>>

(***************************************************************************)
(* Progress values.  The code computes them in floating point; the model   *)
(* keeps the exact quotient <<numerator, denominator>> in lowest terms.    *)
(* Division and multiplication by a positive constant are monotonic in     *)
(* both, and the values the code compares with 100 are exactly 0 or 100.   *)
(***************************************************************************)
RECURSIVE GCD(_, _)
GCD(a, b) == IF b = 0 THEN a ELSE GCD(b, a % b)

Frac(n, d) == LET g == GCD(n, d) IN <<n \div g, d \div g>>

Zero == <<0, 1>>

Hundred == <<100, 1>>

Less(a, b) == a[1] * b[2] < b[1] * a[2]

Leq(a, b) == a[1] * b[2] <= b[1] * a[2]

\* progress = (processed / total_chunks) * 100
PageProgress(processed, total_chunks) == Frac(processed * 100, total_chunks)

\* overall_progress = ((i * 100) + page_progress) / total_pages
OverallProgressMutant(i, page_progress, total_pages) ==
    Frac(page_progress[1], total_pages * page_progress[2])

OverallProgress(i, page_progress, total_pages) ==
    Frac(i * 100 * page_progress[2] + page_progress[1],
         total_pages * page_progress[2])

\* `if page_progress < 100` after a page
PageNeedsFinalMutant(page_progress) == Less(page_progress, Zero)

PageNeedsFinal(page_progress) == Less(page_progress, Hundred)

(***************************************************************************)
(* The frames of handle_file_upload, load_documents and                    *)
(* process_page_parallel.  A pc names where the coroutine resumes: a step  *)
(* runs from there to its next yield or await.                             *)
(*   up.results     per file handed to load_documents: "ok" or "raised"    *)
(*   up.files       per such file: its path                                *)
(*   up.saved       history: per returned file, what its save returned     *)
(*   ld.written     history: units this ingestion wrote to the index       *)
(*   ld.dispatched  history: tasks this ingestion created                  *)
(*   ld.blank       history: finished pages for which no task was created  *)
(*   ld.pc          "stopped": the consumer dropped the generator          *)
(*   ld.error       what the ValueError leaving load_documents wraps       *)
(*   pp.content     per chunk visited: its stitched content is non-empty   *)
(*   pp.writes      history: per chunk of the page, how often written      *)
(***************************************************************************)
NewUp(n) == [pc |-> "start", nfiles |-> n, done |-> 0, status |-> "",
             results |-> <<>>, files |-> <<>>, saved |-> <<>>]

IdleLd == [pc |-> "idle", file_hash |-> 0, file_path |-> 0, total_pages |-> 0,
           i |-> 0, chunk_count |-> 0, page_progress |-> Zero, written |-> 0,
           dispatched |-> 0, blank |-> 0, error |-> ""]

IdlePp == [total_chunks |-> 0, j |-> 0, tasks |-> <<>>, processed |-> 0,
           content |-> <<>>, writes |-> <<>>]

Pending(tasks) == {k \in DOMAIN tasks : tasks[k].state = "pending"}

Failed(tasks) == {k \in DOMAIN tasks : tasks[k].state = "failed"}

Min(S) == CHOOSE x \in S : \A y \in S : x <= y

\* `await asyncio.gather(*tasks)` resumes once no task of the list is left
\* to run
GatheredMutant(tasks) == TRUE

Gathered(tasks) == Pending(tasks) = {}

\* a task created by asyncio.create_task is run by the event loop once the
\* coroutine that created it is suspended: in a gather, or for good when its
\* consumer has dropped the generator
RunnableMutant(pc) == pc \in {"gather", "tail"}

Runnable(pc) == pc \in {"gather", "tail", "stopped"}

\* the chunks of the current page for which a task was created, and the
\* position of chunk k among them (the value of `processed` at its dispatch)
Dispatched(marks) == {k \in 1..Len(marks) : marks[k]}

Ordinal(marks, k) == Cardinality({m \in Dispatched(marks) : m <= k})

\* the writes counted in `writes`, over all the chunks of the page
RECURSIVE Total(_)
Total(counts) ==
    IF counts = <<>> THEN 0
    ELSE counts[Len(counts)] + Total(SubSeq(counts, 1, Len(counts) - 1))

(***************************************************************************)
(* handle_file_upload                                                      *)
(***************************************************************************)
UploadCall ==
    /\ up.pc = "start"
    /\ up' = IF up.nfiles = 0
             THEN [up EXCEPT !.pc = "done", !.status = "No files selected"]
             ELSE [up EXCEPT !.pc = "loop"]
    /\ UNCHANGED <<ld, pp, progress, emitted>>

\* the for loop is over: every load_documents returned
UploadFinish ==
    /\ up.pc = "loop" /\ ld.pc \in {"idle", "returned"}
    /\ up.done = up.nfiles
    /\ up' = [up EXCEPT !.pc = "done", !.status = "Files processed successfully"]
    /\ UNCHANGED <<ld, pp, progress, emitted>>

\* an exception leaves load_documents wrapped in a ValueError; the try of
\* handle_file_upload encloses the whole for loop
PropagateMutant(frame, error) ==
    /\ ld' = [frame EXCEPT !.pc = "raised", !.error = error, !.written = 0]
    /\ up' = [up EXCEPT !.pc = "done", !.status = "Error processing files",
                        !.results = Append(@, "raised"),
                        !.files = Append(@, frame.file_path)]

Propagate(frame, error) ==
    /\ ld' = [frame EXCEPT !.pc = "raised", !.error = error]
    /\ up' = [up EXCEPT !.pc = "done", !.status = "Error processing files",
                        !.results = Append(@, "raised"),
                        !.files = Append(@, frame.file_path)]

\* the consumer receives one value of load_documents
Receive(value) ==
    /\ progress' = value
    /\ emitted' = emitted + 1

(***************************************************************************)
(* load_documents up to the page loop: size, hash, page count.             *)
(***************************************************************************)
\* `if total_pages == 0: raise ValueError('Document contains no pages')`
NoPagesMutant(total_pages) == FALSE

NoPages(total_pages) == total_pages = 0

LoadStart(pages) ==
    /\ up.pc = "loop" /\ ld.pc \in {"idle", "returned"}
    /\ up.done < up.nfiles
    /\ progress' = Zero
    /\ emitted' = 0
    /\ pp' = IdlePp
    /\ \E path \in Paths, hash \in Hashes, readable \in BOOLEAN,
          total_pages \in 0..pages :
        LET frame == [IdleLd EXCEPT !.file_path = path, !.file_hash = hash]
            opened == [frame EXCEPT !.total_pages = total_pages]
        IN  IF ~readable
            THEN total_pages = 0 /\ Propagate(frame, "unreadable")
            ELSE IF NoPages(total_pages)
            THEN Propagate(opened, "Document contains no pages")
            ELSE /\ ld' = [opened EXCEPT !.pc = "page"]
                 /\ UNCHANGED up

\* page i: get_text, split_into_chunks, add_neighbouring_content
PageStart(chunks) ==
    /\ ld.pc = "page"
    /\ UNCHANGED <<progress, emitted>>
    /\ \E extracted \in BOOLEAN, total_chunks \in 0..chunks :
        IF ~extracted
        THEN Propagate(ld, "extract") /\ UNCHANGED pp
        ELSE /\ ld' = [ld EXCEPT !.pc = "loop", !.page_progress = Zero]
             /\ pp' = [IdlePp EXCEPT !.total_chunks = total_chunks,
                                     !.writes = [k \in 1..total_chunks |-> 0]]
             /\ UNCHANGED up

\* load_documents receives a value of process_page_parallel and yields
YieldOverall(frame, page_value) ==
    /\ ld' = [frame EXCEPT !.page_progress = page_value,
                           !.chunk_count = frame.chunk_count + 1]
    /\ Receive(OverallProgress(frame.i, page_value, frame.total_pages))

(***************************************************************************)
(* process_page_parallel: one iteration of the for loop.                   *)
(***************************************************************************)
\* `if not chunk.page_content: continue`
SkippedMutant(nonempty) == FALSE

Skipped(nonempty) == ~nonempty

LoopStep ==
    /\ ld.pc = "loop" /\ pp.j < pp.total_chunks
    /\ UNCHANGED up
    /\ \E nonempty \in BOOLEAN :
        IF Skipped(nonempty)
        THEN /\ pp' = [pp EXCEPT !.j = pp.j + 1,
                                 !.content = Append(pp.content, FALSE)]
             /\ UNCHANGED <<ld, progress, emitted>>
        ELSE LET tasks == Append(pp.tasks, [chunk |-> pp.j + 1, state |-> "pending"])
                 processed == pp.processed + 1
                 q == [pp EXCEPT !.tasks = tasks, !.processed = processed,
                                 !.content = Append(pp.content, nonempty)]
                 created == [ld EXCEPT !.dispatched = @ + 1]
             IN  IF Len(tasks) >= batch_size
                 THEN /\ pp' = q
                      /\ ld' = [created EXCEPT !.pc = "gather"]
                      /\ UNCHANGED <<progress, emitted>>
                 ELSE /\ pp' = [q EXCEPT !.j = pp.j + 1]
                      /\ YieldOverall(created,
                                      PageProgress(processed, pp.total_chunks))

\* add_texts(texts=[chunk.page_content], ...): one more unit, under a new id
AddTextsMutant(units, hash) == [units EXCEPT ![hash] = 1]

AddTexts(units, hash) == [units EXCEPT ![hash] = @ + 1]

\* process_chunk: the event loop runs the oldest pending task while the
\* generator waits in asyncio.gather; add_texts writes the unit or raises
RunTask ==
    /\ Runnable(ld.pc) /\ Pending(pp.tasks) # {}
    /\ UNCHANGED <<up, progress, emitted>>
    /\ LET k == Min(Pending(pp.tasks))
           chunk == pp.tasks[k].chunk
       IN  \E stored \in BOOLEAN :
            IF stored
            THEN /\ pp' = [pp EXCEPT !.tasks[k].state = "done",
                                     !.writes[chunk] = @ + 1]
                 /\ ld' = [ld EXCEPT !.written = @ + 1]
                 /\ store' = AddTexts(store, ld.file_hash)
            ELSE /\ pp' = [pp EXCEPT !.tasks[k].state = "failed"]
                 /\ UNCHANGED <<ld, store>>

\* `await asyncio.gather(*tasks)` inside the loop returns or raises
GatherReturn ==
    /\ ld.pc = "gather" /\ Gathered(pp.tasks)
    /\ IF Failed(pp.tasks) # {}
       THEN Propagate(ld, "write") /\ UNCHANGED <<pp, progress, emitted>>
       ELSE /\ pp' = [pp EXCEPT !.tasks = <<>>, !.j = pp.j + 1]
            /\ YieldOverall([ld EXCEPT !.pc = "loop"],
                            PageProgress(pp.processed, pp.total_chunks))
            /\ UNCHANGED up

\* the for loop is over: `if tasks: await asyncio.gather(*tasks)`
LoopExitMutant ==
    /\ ld.pc = "loop" /\ pp.j = pp.total_chunks
    /\ ld' = [ld EXCEPT !.pc = "final"]
    /\ UNCHANGED <<up, pp, progress, emitted>>

LoopExit ==
    /\ ld.pc = "loop" /\ pp.j = pp.total_chunks
    /\ ld' = [ld EXCEPT !.pc = IF pp.tasks # <<>> THEN "tail" ELSE "final"]
    /\ UNCHANGED <<up, pp, progress, emitted>>

TailReturn ==
    /\ ld.pc = "tail" /\ Gathered(pp.tasks)
    /\ UNCHANGED <<progress, emitted>>
    /\ IF Failed(pp.tasks) # {}
       THEN Propagate(ld, "write") /\ UNCHANGED pp
       ELSE /\ pp' = [pp EXCEPT !.tasks = <<>>]
            /\ ld' = [ld EXCEPT !.pc = "final"]
            /\ UNCHANGED up

\* `if processed > 0: yield 100.0`
PageFinal ==
    /\ ld.pc = "final"
    /\ UNCHANGED <<up, pp>>
    /\ IF pp.processed > 0
       THEN YieldOverall([ld EXCEPT !.pc = "page_end"], Hundred)
       ELSE /\ ld' = [ld EXCEPT !.pc = "page_end"]
            /\ UNCHANGED <<progress, emitted>>

\* process_page_parallel is exhausted: `if page_progress < 100: yield ...`,
\* then the next page, or the metadata after the last one
PageEnd ==
    /\ ld.pc = "page_end"
    /\ UNCHANGED <<up, pp>>
    /\ ld' = [ld EXCEPT !.i = ld.i + 1,
                        !.blank = IF pp.processed = 0 THEN @ + 1 ELSE @,
                        !.pc = IF ld.i + 1 < ld.total_pages THEN "page" ELSE "save"]
    /\ IF PageNeedsFinal(ld.page_progress)
       THEN Receive(Frac((ld.i + 1) * 100, ld.total_pages))
       ELSE UNCHANGED <<progress, emitted>>

\* DocumentMetadata(...) and the call of save_document_metadata
LoadSave ==
    /\ ld.pc = "save"
    /\ \E reachable \in BOOLEAN :
        SaveCall(Uploader, ld.file_hash,
                 <<DocumentMetadata(ld.file_path, ld.total_pages, ld.chunk_count,
                                    ld.file_hash)>>, reachable)
    /\ ld' = [ld EXCEPT !.pc = "saving"]
    /\ UNCHANGED <<up, pp, progress, emitted>>

\* save_document_metadata returned; its value is not looked at
LoadReturn ==
    /\ ld.pc = "saving" /\ mcall[Uploader].pc = "done"
    /\ mcall' = [mcall EXCEPT ![Uploader] = IdleFrame]
    /\ ld' = [ld EXCEPT !.pc = "returned"]
    /\ up' = [up EXCEPT !.done = up.done + 1, !.results = Append(@, "ok"),
                        !.files = Append(@, ld.file_path),
                        !.saved = Append(@, mcall[Uploader].outcome.ok)]
    /\ UNCHANGED <<redis, kv, indexed_documents, pp, progress, emitted>>

(***************************************************************************)
(* The documents tab of the UI: update_documents_list fills the list with  *)
(* one row per indexed document, and selecting a row hands the value of    *)
(* the selected cell to show_document_details.  Both go through            *)
(* DocumentProcessor to the metadata service, as client Viewer.            *)
(*   ui.listed   history: the records get_indexed_documents was built from *)
(*   ui.row      history: the row that was selected                        *)
(***************************************************************************)
Viewer == NClients

\* the strings a title (a file name) can be: the text of a digest or another
Titles == 1..(NHashes + NPaths)

\* what show_document_details returns: the heading and doc_info
Details(doc_info) == [heading |-> "Document Details", doc_info |-> doc_info]

NotFound == [heading |-> "Document Not Found", doc_info |-> <<>>]

IdleUi == [pc |-> "idle", rows |-> <<>>, listed |-> <<>>, row |-> 0, value |-> 0,
           details |-> [heading |-> "", doc_info |-> <<>>]]

UiQuiet == ui = IdleUi

\* get_indexed_documents: {'title': doc.title, 'id': doc.file_hash} per record
IndexedDocuments(documents) ==
    [k \in DOMAIN documents |->
        [title |-> documents[k].title, id |-> documents[k].file_hash]]

\* `return [[doc['title']] for doc in docs]`
Rows(docs) == [k \in DOMAIN docs |-> docs[k].title]

\* update_documents_list calls get_all_documents
UpdateCall ==
    /\ ui.pc = "idle"
    /\ \E reachable \in BOOLEAN : ListCall(Viewer, reachable)
    /\ ui' = [ui EXCEPT !.pc = "listing"]

\* update_documents_list returns the rows
UpdateReturn ==
    /\ ui.pc = "listing" /\ mcall[Viewer].pc = "done"
    /\ ui' = [ui EXCEPT !.pc = "listed",
                        !.listed = mcall[Viewer].outcome.docs,
                        !.rows = Rows(IndexedDocuments(mcall[Viewer].outcome.docs))]
    /\ UNCHANGED metaVars

\* the user selects a row: show_document_details(evt) calls
\* get_document_metadata(evt.value)
ShowCall ==
    /\ ui.pc = "listed"
    /\ \E row \in DOMAIN ui.rows, reachable \in BOOLEAN :
        /\ ui' = [ui EXCEPT !.pc = "showing", !.row = row, !.value = ui.rows[row]]
        /\ GetCall(Viewer, ui.rows[row], reachable)

\* show_document_details returns the details or '### Document Not Found'
ShowReturn ==
    /\ ui.pc = "showing" /\ mcall[Viewer].pc = "done"
    /\ ui' = [ui EXCEPT !.pc = "shown",
                        !.details = IF mcall[Viewer].outcome.docs # <<>>
                                    THEN Details(mcall[Viewer].outcome.docs)
                                    ELSE NotFound]
    /\ UNCHANGED metaVars

(***************************************************************************)
(* A consumer that stops iterating load_documents.  It can do so only      *)
(* where the generator is suspended at a yield; the generator is never     *)
(* resumed (closing it raises GeneratorExit at the yield, which `except    *)
(* Exception` does not catch), and the tasks created run without it.       *)
(***************************************************************************)
\* load_documents is suspended at a yield: after the value of a chunk, after
\* the closing 100.0 of a page, or after its own value at the end of a page
AtYield ==
    \/ ld.pc = "loop" /\ pp.j >= 1 /\ pp.content[pp.j]
    \/ ld.pc = "page_end" /\ pp.processed > 0
    \/ ld.pc \in {"page", "save"} /\ ld.i >= 1 /\ PageNeedsFinal(ld.page_progress)

Stop ==
    /\ AtYield
    /\ ld' = [ld EXCEPT !.pc = "stopped"]
    /\ UNCHANGED <<up, pp, progress, emitted>>

(***************************************************************************)
(* VectorStore._ensure_index: indices.exists, then indices.create.         *)
(*   before     the index the exists request looked at                     *)
(*   issued     the call sent an indices.create request                    *)
(*   transport  history: a request of the call did not reach the backend   *)
(***************************************************************************)
IdleEnsure == [pc |-> "idle", dim |-> 0, before |-> <<>>, issued |-> FALSE,
               outcome |-> "none", transport |-> FALSE]

IndexQuiet ==
    /\ index = <<>>
    /\ ecall = [s \in Stores |-> IdleEnsure]
    /\ ensures = 0

\* client.indices.exists(index=index_name)
IndexExistsMutant(idx) == FALSE

IndexExists(idx) == idx # <<>>

\* _get_index_mapping(): what matters of it is the vector dimension
IndexMapping(dim) == [dimension |-> dim]

EnsureCheck(s, dim, reachable) ==
    /\ ecall[s].pc \in {"idle", "done"}
    /\ ensures < MaxEnsures
    /\ ensures' = ensures + 1
    /\ LET f == [IdleEnsure EXCEPT !.dim = dim, !.before = index] IN
       ecall' = [ecall EXCEPT ![s] =
                    IF ~reachable
                    THEN [f EXCEPT !.pc = "done", !.outcome = "raised", !.transport = TRUE]
                    ELSE IF IndexExists(index)
                    THEN [f EXCEPT !.pc = "done", !.outcome = "ok"]
                    ELSE [f EXCEPT !.pc = "create"]]
    /\ UNCHANGED index

\* client.indices.create: the backend refuses to create an index that exists
EnsureCreate(s, reachable) ==
    LET f == ecall[s] IN
    /\ f.pc = "create"
    /\ UNCHANGED ensures
    /\ IF ~reachable
       THEN /\ ecall' = [ecall EXCEPT ![s] =
                    [f EXCEPT !.pc = "done", !.outcome = "raised", !.transport = TRUE]]
            /\ UNCHANGED index
       ELSE IF index # <<>>
       THEN /\ ecall' = [ecall EXCEPT ![s] =
                    [f EXCEPT !.pc = "done", !.outcome = "raised", !.issued = TRUE]]
            /\ UNCHANGED index
       ELSE /\ index' = <<IndexMapping(f.dim)>>
            /\ ecall' = [ecall EXCEPT ![s] =
                    [f EXCEPT !.pc = "done", !.outcome = "ok", !.issued = TRUE]]

(***************************************************************************)
(* rag.search: both retrievers, deduplication, sort, context, metadata.    *)
(* A result is [page_content, score]; score is <<>> when the metadata has  *)
(* no 'score'.                                                             *)
(***************************************************************************)
Doc(text, score) == [page_content |-> text, score |-> score]

Docs == {Doc(t, sc) : t \in Texts, sc \in {<<>>} \cup {<<n>> : n \in Scores}}

SeqsUpTo(S, n) == UNION {[1..m -> S] : m \in 0..n}

NewSearch(direct, mmr) ==
    [pc |-> "start", direct_results |-> direct, mmr_results |-> mmr,
     unique_results |-> <<>>, context |-> <<>>,
     search_metadata |-> [total_results_found |-> 0, unique_results_used |-> 0,
                          top_result_score |-> 0]]

SearchQuiet == sv = NewSearch(<<>>, <<>>)

\* the loop over semantic_results with `seen` and `unique_results`
RECURSIVE DedupFrom(_, _, _)
DedupFrom(docs, seen, unique) ==
    IF docs = <<>> THEN unique
    ELSE LET doc == Head(docs) IN
         IF doc.page_content \in seen
         THEN DedupFrom(Tail(docs), seen, unique)
         ELSE DedupFrom(Tail(docs), seen \cup {doc.page_content}, Append(unique, doc))

\* keeps, at the place of the first, the last result of each text
DedupMutant(docs) ==
    LET first == DedupFrom(docs, {}, <<>>)
        last(text) == CHOOSE k \in DOMAIN docs :
                        /\ docs[k].page_content = text
                        /\ \A m \in DOMAIN docs : docs[m].page_content = text => m <= k
    IN  [i \in DOMAIN first |-> docs[last(first[i].page_content)]]

Dedup(docs) == DedupFrom(docs, {}, <<>>)

\* key=lambda x: float(x.metadata.get('score', 0))
ScoreOf(doc) == IF doc.score = <<>> THEN 0 ELSE doc.score[1]

\* puts a result before the results of the same score
InsertByScoreMutant(sorted, doc) ==
    LET after == {k \in DOMAIN sorted : ScoreOf(sorted[k]) <= ScoreOf(doc)}
        at == IF after = {} THEN Len(sorted) + 1
              ELSE CHOOSE k \in after : \A m \in after : k <= m
    IN  SubSeq(sorted, 1, at - 1) \o <<doc>> \o SubSeq(sorted, at, Len(sorted))

\* list.sort(key=..., reverse=True): stable, equal keys keep their order
InsertByScore(sorted, doc) ==
    LET after == {k \in DOMAIN sorted : ScoreOf(sorted[k]) < ScoreOf(doc)}
        at == IF after = {} THEN Len(sorted) + 1
              ELSE CHOOSE k \in after : \A m \in after : k <= m
    IN  SubSeq(sorted, 1, at - 1) \o <<doc>> \o SubSeq(sorted, at, Len(sorted))

RECURSIVE SortFrom(_, _)
SortFrom(docs, sorted) ==
    IF docs = <<>> THEN sorted
    ELSE SortFrom(Tail(docs), InsertByScore(sorted, Head(docs)))

SortByScore(docs) == SortFrom(docs, <<>>)

\* unique_results[:5]
ContextSize == 5

ContextOfMutant(results) == [k \in 1..Len(results) |-> results[k].page_content]

ContextOf(results) ==
    [k \in 1..(IF Len(results) < ContextSize THEN Len(results) ELSE ContextSize) |->
        results[k].page_content]

\* search_metadata = {'total_results_found': ..., 'unique_results_used': ...}
SearchMetadataMutant(semantic_results, unique_results) ==
    [total_results_found |-> Len(semantic_results),
     unique_results_used |-> Len(semantic_results),
     top_result_score |->
        IF unique_results # <<>> THEN ScoreOf(unique_results[1]) ELSE 0]

SearchMetadata(semantic_results, unique_results) ==
    [total_results_found |-> Len(semantic_results),
     unique_results_used |-> Len(unique_results),
     top_result_score |->
        IF unique_results # <<>> THEN ScoreOf(unique_results[1]) ELSE 0]

\* search(): returns, or re-raises what a retriever or the LLM raised
Search ==
    /\ sv.pc = "start"
    /\ \E answered \in BOOLEAN :
        IF ~answered
        THEN sv' = [sv EXCEPT !.pc = "raised"]
        ELSE LET semantic_results == sv.direct_results \o sv.mmr_results
                 unique_results == SortByScore(Dedup(semantic_results))
             IN  sv' = [sv EXCEPT
                    !.pc = "done",
                    !.unique_results = unique_results,
                    !.context = ContextOf(unique_results),
                    !.search_metadata =
                        SearchMetadata(semantic_results, unique_results)]

(***************************************************************************)
(* ChunkSplitter, as process_page_parallel applies it to each page.  A     *)
(* page is the list of pieces the text splitter cuts its cleaned text      *)
(* into; the empty text has no piece.  A stitched chunk's content is the   *)
(* list of its sections.                                                   *)
(***************************************************************************)
Contents == {"", " ", "text"}

\* str.strip()
Strip(text) == IF text = " " THEN "" ELSE text

NewSplit(file) == [pc |-> "split", file |-> file, i |-> 0, chunks |-> <<>>,
                   enhanced_chunks |-> <<>>, stitched |-> <<>>]

SplitQuiet == sp = NewSplit(<<>>)

\* the metadata split_into_chunks gives the chunk at position i of n
ChunkMetadataMutant(metadata, i, n) ==
    [page |-> metadata.page, total_pages |-> metadata.total_pages,
     chunk_index |-> i, total_chunks |-> n,
     is_first_chunk |-> (i = 0), is_last_chunk |-> (i = n)]

ChunkMetadata(metadata, i, n) ==
    [page |-> metadata.page, total_pages |-> metadata.total_pages,
     chunk_index |-> i, total_chunks |-> n,
     is_first_chunk |-> (i = 0), is_last_chunk |-> (i = n - 1)]

split_into_chunks(pieces, metadata) ==
    [k \in 1..Len(pieces) |->
        [page_content |-> pieces[k],
         metadata |-> ChunkMetadata(metadata, k - 1, Len(pieces))]]

\* _extract_relevant_context: nothing of a blank text
ExtractContext(text) == IF Strip(text) = "" THEN "" ELSE "context"

\* chunks[i - 1] without the test: position -1 is the last chunk
PrevChunkMutant(chunks, i) == <<chunks[IF i > 0 THEN i ELSE Len(chunks)]>>

\* prev_chunk, next_chunk: None is <<>>
PrevChunk(chunks, i) == IF i > 0 THEN <<chunks[i]>> ELSE <<>>

NextChunk(chunks, i) == IF i < Len(chunks) - 1 THEN <<chunks[i + 2]>> ELSE <<>>

\* one iteration of the loop of add_neighbouring_content, i counting from 0
Enhance(chunks, i) ==
    LET chunk == chunks[i + 1]
        prev_chunk == PrevChunk(chunks, i)
        next_chunk == NextChunk(chunks, i)
        previous == IF prev_chunk # <<>> /\ ExtractContext(prev_chunk[1].page_content) # ""
                    THEN <<"Previous Context">> ELSE <<>>
        current == IF Strip(chunk.page_content) # ""
                   THEN <<"Current Content">> ELSE <<>>
        next == IF next_chunk # <<>> /\ ExtractContext(next_chunk[1].page_content) # ""
                THEN <<"Next Context">> ELSE <<>>
    IN  [page_content |-> previous \o current \o next,
         metadata |-> [chunk |-> chunk.metadata,
                       has_previous |-> prev_chunk # <<>>,
                       has_next |-> next_chunk # <<>>]]

add_neighbouring_content(chunks) ==
    [k \in 1..Len(chunks) |-> Enhance(chunks, k - 1)]

\* chunks = chunk_splitter.split_into_chunks(text, metadata)
SplitPage ==
    /\ sp.pc = "split"
    /\ sp' = IF sp.i = Len(sp.file)
             THEN [sp EXCEPT !.pc = "done"]
             ELSE [sp EXCEPT !.pc = "stitch",
                             !.chunks = split_into_chunks(sp.file[sp.i + 1],
                                            [page |-> sp.i + 1,
                                             total_pages |-> Len(sp.file)])]

\* enhanced_chunks = chunk_splitter.add_neighbouring_content(chunks)
StitchPage ==
    /\ sp.pc = "stitch"
    /\ LET enhanced_chunks == add_neighbouring_content(sp.chunks) IN
       sp' = [sp EXCEPT !.pc = "split", !.i = sp.i + 1,
                        !.enhanced_chunks = enhanced_chunks,
                        !.stitched = Append(sp.stitched, enhanced_chunks)]

(***************************************************************************)
(* The metadata service under concurrent callers.                          *)
(***************************************************************************)
MetaQuiet ==
    /\ redis = None
    /\ kv = <<>>
    /\ indexed_documents = {}
    /\ mcall = [c \in {Uploader} \cup Clients |-> IdleFrame]
    /\ calls = 0

\* no document content is fixed and the vector index is empty
CorpusQuiet ==
    /\ content = <<>>
    /\ store = [h \in Hashes |-> 0]

IngestQuiet ==
    /\ up = NewUp(0)
    /\ ld = IdleLd
    /\ pp = IdlePp
    /\ progress = Zero
    /\ emitted = 0

InitMeta == MetaQuiet /\ IngestQuiet /\ IndexQuiet /\ SearchQuiet /\ SplitQuiet /\ UiQuiet /\ CorpusQuiet

\* a client makes one more call
Budget == calls < MaxCalls /\ calls' = calls + 1

NextMeta ==
    \/ \E c \in Clients, reachable \in BOOLEAN, h \in Hashes :
        SaveCall(c, h, <<MetaSample(h)>>, reachable) /\ Budget /\ UNCHANGED <<ingestVars, indexVars, searchVars, splitVars, uiVars, corpusVars>>
    \/ \E c \in Clients, reachable \in BOOLEAN, h \in Hashes :
        GetCall(c, h, reachable) /\ Budget /\ UNCHANGED <<ingestVars, indexVars, searchVars, splitVars, uiVars, corpusVars>>
    \/ \E c \in Clients, reachable \in BOOLEAN :
        ListCall(c, reachable) /\ Budget /\ UNCHANGED <<ingestVars, indexVars, searchVars, splitVars, uiVars, corpusVars>>
    \/ \E c \in Clients, reachable \in BOOLEAN, h \in Hashes :
        DeleteCall(c, h, reachable) /\ Budget /\ UNCHANGED <<ingestVars, indexVars, searchVars, splitVars, uiVars, corpusVars>>
    \/ \E c \in Clients, reachable \in BOOLEAN :
        SaveSet(c, reachable) /\ UNCHANGED clientRest
    \/ \E c \in Clients, reachable \in BOOLEAN :
        SaveSadd(c, reachable) /\ UNCHANGED clientRest
    \/ \E c \in Clients, reachable \in BOOLEAN :
        GetRead(c, reachable) /\ UNCHANGED clientRest
    \/ \E c \in Clients, reachable \in BOOLEAN :
        ListSmembers(c, reachable) /\ UNCHANGED clientRest
    \/ \E c \in Clients, reachable \in BOOLEAN :
        ListNext(c, reachable) /\ UNCHANGED clientRest
    \/ \E c \in Clients, reachable \in BOOLEAN :
        DeleteKey(c, reachable) /\ UNCHANGED clientRest
    \/ \E c \in Clients, reachable \in BOOLEAN :
        DeleteSrem(c, reachable) /\ UNCHANGED clientRest

SpecMeta == InitMeta /\ [][NextMeta]_vars

\* a finished call of `op` by client c that met an unreachable backend
FailedCall(c, op) ==
    /\ mcall[c].op = op
    /\ mcall[c].pc = "done"
    /\ mcall[c].hitDown

(***************************************************************************)
(* C5: save_document_metadata is atomic per record: in no state does a     *)
(* record exist under doc_metadata:<hash> while <hash> is not a member of  *)
(* indexed_documents.  The code issues SET and SADD as two commands; the   *)
(* state between them, and the state a failing SADD leaves, break this.    *)
(***************************************************************************)
C5_SaveAtomic == \A h \in DOMAIN kv : h \in indexed_documents

C7_DeleteRemoves ==
    \A c \in Clients :
        LET f == mcall[c] IN
        (f.op = "delete" /\ f.pc = "done" /\ f.outcome.ok /\ ~f.saveSince) =>
            /\ GetValue(f.doc_id) = <<>>
            /\ f.doc_id \notin indexed_documents
            /\ \A h \in indexed_documents :
                GetValue(h) # <<>> => GetValue(h)[1].file_hash # f.doc_id

\* a save of the hash completed, then a delete of it returned True
C7_Witness ==
    \E c, d \in Clients :
        /\ mcall[c].op = "delete" /\ mcall[c].pc = "done"
        /\ mcall[c].outcome.ok /\ ~mcall[c].saveSince
        /\ mcall[d].op = "save" /\ mcall[d].pc = "done" /\ mcall[d].outcome.ok
        /\ mcall[d].doc_id = mcall[c].doc_id

(***************************************************************************)
(* handle_file_upload over a batch of files whose documents have at most   *)
(* `pages` pages of at most `chunks` chunks.                               *)
(***************************************************************************)
InitIngest(files) ==
    /\ MetaQuiet /\ IndexQuiet /\ SearchQuiet /\ SplitQuiet /\ UiQuiet /\ CorpusQuiet
    /\ \E n \in 0..files : up = NewUp(n)
    /\ ld = IdleLd
    /\ pp = IdlePp
    /\ progress = Zero
    /\ emitted = 0

Ingest(pages, chunks, also) ==
    \/ UploadCall /\ UNCHANGED <<metaVars, indexVars, searchVars, splitVars, uiVars, content, store>> /\ also
    \/ UploadFinish /\ UNCHANGED <<metaVars, indexVars, searchVars, splitVars, uiVars, content, store>> /\ also
    \/ LoadStart(pages) /\ UNCHANGED <<metaVars, indexVars, searchVars, splitVars, uiVars, content, store>> /\ also
    \/ PageStart(chunks) /\ UNCHANGED <<metaVars, indexVars, searchVars, splitVars, uiVars, content, store>> /\ also
    \/ LoopStep /\ UNCHANGED <<metaVars, indexVars, searchVars, splitVars, uiVars, content, store>> /\ also
    \/ RunTask /\ UNCHANGED <<metaVars, indexVars, searchVars, splitVars, uiVars, content>> /\ also
    \/ GatherReturn /\ UNCHANGED <<metaVars, indexVars, searchVars, splitVars, uiVars, content, store>> /\ also
    \/ LoopExit /\ UNCHANGED <<metaVars, indexVars, searchVars, splitVars, uiVars, content, store>> /\ also
    \/ TailReturn /\ UNCHANGED <<metaVars, indexVars, searchVars, splitVars, uiVars, content, store>> /\ also
    \/ PageFinal /\ UNCHANGED <<metaVars, indexVars, searchVars, splitVars, uiVars, content, store>> /\ also
    \/ PageEnd /\ UNCHANGED <<metaVars, indexVars, searchVars, splitVars, uiVars, content, store>> /\ also
    \/ LoadSave /\ UNCHANGED <<calls, indexVars, searchVars, splitVars, uiVars, content, store>> /\ also
    \/ \E reachable \in BOOLEAN : SaveSet(Uploader, reachable) /\ UNCHANGED clientRest /\ also
    \/ \E reachable \in BOOLEAN : SaveSadd(Uploader, reachable) /\ UNCHANGED clientRest /\ also
    \/ LoadReturn /\ UNCHANGED <<calls, indexVars, searchVars, splitVars, uiVars, content, store>> /\ also

\* the ingestion of one file
Init == InitIngest(1)

Next == Ingest(MaxPages, MaxChunks, TRUE)

Spec == Init /\ [][Next]_vars

\* an upload of several files
InitUpload == InitIngest(MaxFiles)

NextUpload == Ingest(UploadPages, UploadChunks, TRUE)

SpecUpload == InitUpload /\ [][NextUpload]_vars

\* C1: every progress value load_documents emits is at least the value it
\* emitted before, inside a page and from one page to the next, whatever the
\* number of chunks of each page.
C1_NonDecreasing == [][emitted' = emitted + 1 => Leq(progress, progress')]_vars

\* a two-page ingestion returned after more values than pages
C1_Witness == ld.pc = "returned" /\ ld.total_pages = 2 /\ emitted >= 3

\* C2: an ingestion that returns has emitted at least one value and the last
\* one is 100, also when the last page had no chunk to process.
C2_EndsAtHundred == ld.pc = "returned" => emitted >= 1 /\ progress = Hundred

\* the last page had chunks and all of them were skipped as empty
C2_Witness == ld.pc = "returned" /\ pp.total_chunks > 0 /\ pp.processed = 0

Saved(frame) ==
    /\ frame.pc = "returned"
    /\ frame.file_hash \in DOMAIN kv

\* C3: the record a completed ingestion saved has page_count equal to the
\* number of pages and chunk_count equal to the number of chunks it indexed.
C3_CountsRecorded ==
    Saved(ld) =>
        LET record == ParseRaw(kv[ld.file_hash]) IN
        /\ record.page_count = ld.total_pages
        /\ record.chunk_count = ld.written

\* C4: when handle_file_upload has returned, every file of the batch was
\* handed to load_documents, whether or not another file failed.
C4_BatchIndependent == up.pc = "done" => Len(up.results) = up.nfiles

(***************************************************************************)
(* VectorStore instances constructed concurrently against one backend.     *)
(***************************************************************************)
InitIndex == MetaQuiet /\ IngestQuiet /\ IndexQuiet /\ SearchQuiet /\ SplitQuiet /\ UiQuiet /\ CorpusQuiet

NextIndex ==
    \/ \E s \in Stores, dim \in EmbeddingSizes, reachable \in BOOLEAN :
        EnsureCheck(s, dim, reachable) /\ UNCHANGED <<metaVars, ingestVars, searchVars, splitVars, uiVars, corpusVars>>
    \/ \E s \in Stores, reachable \in BOOLEAN :
        EnsureCreate(s, reachable) /\ UNCHANGED <<metaVars, ingestVars, searchVars, splitVars, uiVars, corpusVars>>

SpecIndex == InitIndex /\ [][NextIndex]_vars

Clean(s) == ecall[s].pc = "done" /\ ~ecall[s].transport

\* C8: when two callers both ran _ensure_index against the absent index and
\* every request reached the backend, neither call raised and the index exists.
C8_ConcurrentSafe ==
    \A s, t \in Stores :
        (s # t /\ Clean(s) /\ Clean(t)
              /\ ecall[s].before = <<>> /\ ecall[t].before = <<>>) =>
            /\ ecall[s].outcome = "ok" /\ ecall[t].outcome = "ok"
            /\ index # <<>>

\* C9: _ensure_index sends a creation only when the index it looked at was
\* absent; a call that finds the index and reaches the backend returns without
\* raising, creates nothing and leaves the index and its mapping as they were.
C9_Idempotent ==
    \A s \in Stores :
        /\ ecall[s].issued => ecall[s].before = <<>>
        /\ (Clean(s) /\ ecall[s].before # <<>>) =>
            /\ ecall[s].outcome = "ok"
            /\ ~ecall[s].issued
            /\ index = ecall[s].before

\* one call created the index, a later one configured for another dimension
\* found it
C9_Witness ==
    \E s, t \in Stores :
        /\ s # t
        /\ Clean(t) /\ ecall[t].issued /\ ecall[t].outcome = "ok"
        /\ Clean(s) /\ ecall[s].before # <<>>
        /\ ecall[s].dim # ecall[s].before[1].dimension

(***************************************************************************)
(* One search over every pair of retriever results.                        *)
(***************************************************************************)
InitSearch ==
    /\ MetaQuiet /\ IngestQuiet /\ IndexQuiet /\ SplitQuiet /\ UiQuiet /\ CorpusQuiet
    /\ \E found \in SeqsUpTo(Docs, MaxResults) :
        \E n \in 0..Len(found) :
            sv = NewSearch(SubSeq(found, 1, n), SubSeq(found, n + 1, Len(found)))

NextSearch == Search /\ UNCHANGED <<metaVars, ingestVars, indexVars, splitVars, uiVars, corpusVars>>

SpecSearch == InitSearch /\ [][NextSearch]_vars

FirstWith(docs, text) ==
    docs[Min({k \in DOMAIN docs : docs[k].page_content = text})]

\* C10: the results search returns hold every text of the two result lists
\* once, and the result kept for a text is the first one with that text in
\* the similarity results followed by the MMR results.
C10_DedupFirst ==
    sv.pc = "done" =>
        LET semantic_results == sv.direct_results \o sv.mmr_results
            results == sv.unique_results
        IN  /\ \A i, j \in DOMAIN results :
                 i # j => results[i].page_content # results[j].page_content
            /\ \A i \in DOMAIN results :
                 results[i] = FirstWith(semantic_results, results[i].page_content)
            /\ \A k \in DOMAIN semantic_results :
                 \E i \in DOMAIN results :
                    results[i].page_content = semantic_results[k].page_content

\* a text returned by both retrievers under different scores
C10_Witness ==
    /\ sv.pc = "done"
    /\ \E i \in DOMAIN sv.direct_results, j \in DOMAIN sv.mmr_results :
        /\ sv.direct_results[i].page_content = sv.mmr_results[j].page_content
        /\ sv.direct_results[i].score # sv.mmr_results[j].score

FirstAt(docs, text) == Min({k \in DOMAIN docs : docs[k].page_content = text})

\* C11: the results search returns are in descending order of score, a
\* missing score counting as 0, and two results of equal score are in the
\* order of their first occurrence in the concatenated result lists, which is
\* their order after deduplication.
C11_SortedStable ==
    sv.pc = "done" =>
        LET semantic_results == sv.direct_results \o sv.mmr_results
            results == sv.unique_results
        IN  \A i, j \in DOMAIN results :
                i < j =>
                    /\ ScoreOf(results[i]) >= ScoreOf(results[j])
                    /\ ScoreOf(results[i]) = ScoreOf(results[j]) =>
                        FirstAt(semantic_results, results[i].page_content)
                            < FirstAt(semantic_results, results[j].page_content)

\* a result without score ahead of one with score 0, both moved behind a
\* result that the retrievers returned after them
C11_Witness ==
    /\ sv.pc = "done"
    /\ Len(sv.unique_results) = 3
    /\ sv.unique_results[2].score = <<>>
    /\ sv.unique_results[3].score = <<0>>
    /\ (sv.direct_results \o sv.mmr_results)[3] = sv.unique_results[1]

(***************************************************************************)
(* One search over result lists of the retrievers' full length: up to k=5  *)
(* similarity results and k=3 MMR results, none with a score.  search      *)
(* compares texts for equality only, so the texts are numbered in the      *)
(* order in which they first appear.                                       *)
(***************************************************************************)
\* search_kwargs 'k' of the similarity retriever
DirectK == 5

\* search_kwargs 'k' of the MMR retriever
MmrK == 3

Max(S) == CHOOSE x \in S : \A y \in S : y <= x

Range(seq) == {seq[k] : k \in DOMAIN seq}

RECURSIVE TextLists(_)
TextLists(n) ==
    IF n = 0 THEN {<<>>}
    ELSE UNION {{Append(texts, t) :
                    t \in 1..Min({WideTexts, 1 + Max(Range(texts) \cup {0})})} :
                texts \in TextLists(n - 1)}

InitSearchWide ==
    /\ MetaQuiet /\ IngestQuiet /\ IndexQuiet /\ SplitQuiet /\ UiQuiet /\ CorpusQuiet
    /\ \E n \in 0..(DirectK + MmrK) :
        \E texts \in TextLists(n), d \in 0..n :
            /\ d <= DirectK /\ n - d <= MmrK
            /\ sv = NewSearch([k \in 1..d |-> Doc(texts[k], <<>>)],
                              [k \in 1..(n - d) |-> Doc(texts[d + k], <<>>)])

SpecSearchWide == InitSearchWide /\ [][NextSearch]_vars

TextsOf(docs) == {docs[k].page_content : k \in DOMAIN docs}

\* C12: search_metadata reports as total_results_found the number of
\* similarity results plus the number of MMR results, and as
\* unique_results_used the number of distinct texts among them.
C12_Counts ==
    sv.pc = "done" =>
        /\ sv.search_metadata.total_results_found
                = Len(sv.direct_results) + Len(sv.mmr_results)
        /\ sv.search_metadata.unique_results_used
                = Cardinality(TextsOf(sv.direct_results) \cup TextsOf(sv.mmr_results))

\* 5 similarity and 3 MMR results, 2 of the MMR texts among the similarity
\* ones: 6 unique results
C12_Witness ==
    /\ sv.pc = "done"
    /\ Len(sv.direct_results) = 5 /\ Cardinality(TextsOf(sv.direct_results)) = 5
    /\ Len(sv.mmr_results) = 3 /\ Cardinality(TextsOf(sv.mmr_results)) = 3
    /\ Cardinality(TextsOf(sv.direct_results) \cap TextsOf(sv.mmr_results)) = 2
    /\ sv.search_metadata.total_results_found = 8
    /\ sv.search_metadata.unique_results_used = 6

\* C13: load_documents of a document without pages raises; it has emitted no
\* progress value, written no chunk and called no save, so that the Metadata
\* Store holds no record.
C13_ZeroPages ==
    (ld.pc # "idle" /\ ld.total_pages = 0) =>
        /\ ld.pc = "raised"
        /\ emitted = 0
        /\ ld.written = 0
        /\ mcall[Uploader] = IdleFrame
        /\ kv = <<>> /\ indexed_documents = {}

\* a readable document that has no pages was refused
C13_Witness ==
    /\ ld.pc = "raised" /\ ld.error = "Document contains no pages"
    /\ up.status = "Error processing files"

\* C14: when load_documents raises, handle_file_upload reports the error, the
\* ingestion of the file takes no further step, save_document_metadata was not
\* called and no record is stored under the file's hash, and the number of
\* units the ingestion had written to the index is what it was before the
\* failure.
C14_FailureKeepsWrites ==
    [][/\ (ld'.pc = "raised" /\ ld.pc # "raised") =>
            /\ ld'.error # ""
            /\ up'.pc = "done" /\ up'.status = "Error processing files"
            /\ mcall'[Uploader] = IdleFrame
            /\ ld'.file_hash \notin DOMAIN kv'
            /\ ld.pc # "idle" => ld'.written = ld.written
       /\ ld.pc = "raised" => ld' = ld]_vars

\* a write failed after other units of the file had been written
C14_Witness == ld.pc = "raised" /\ ld.error = "write" /\ ld.written > 0

\* C15: in every state of an ingestion at most 3 chunk writes are dispatched
\* and not completed.
C15_InFlightBounded == Cardinality(Pending(pp.tasks)) <= 3

\* a full batch is dispatched and none of its writes has completed
C15_Witness == ld.pc = "gather" /\ Cardinality(Pending(pp.tasks)) = 3

(***************************************************************************)
(* The chunking of every document of up to SplitPages pages.               *)
(***************************************************************************)
InitSplit ==
    /\ MetaQuiet /\ IngestQuiet /\ IndexQuiet /\ SearchQuiet /\ UiQuiet /\ CorpusQuiet
    /\ \E file \in SeqsUpTo(SeqsUpTo(Contents, SplitPieces), SplitPages) :
        file # <<>> /\ sp = NewSplit(file)

NextSplit ==
    \/ SplitPage /\ UNCHANGED <<metaVars, ingestVars, indexVars, searchVars, uiVars, corpusVars>>
    \/ StitchPage /\ UNCHANGED <<metaVars, ingestVars, indexVars, searchVars, uiVars, corpusVars>>

SpecSplit == InitSplit /\ [][NextSplit]_vars

\* C17: the chunks split_into_chunks returned for a page carry chunk_index 0,
\* 1, ... in order, total_chunks equal to their number, is_first_chunk on the
\* first only and is_last_chunk on the last only; a page without text gives
\* no chunk.
C17_ChunkIndexes ==
    sp.pc = "stitch" =>
        LET chunks == sp.chunks
            n == Len(chunks)
        IN  /\ n = Len(sp.file[sp.i + 1])
            /\ \A k \in 1..n :
                /\ chunks[k].metadata.chunk_index = k - 1
                /\ chunks[k].metadata.total_chunks = n
                /\ chunks[k].metadata.is_first_chunk = (k = 1)
                /\ chunks[k].metadata.is_last_chunk = (k = n)
            /\ n > 0 =>
                /\ Cardinality({k \in 1..n : chunks[k].metadata.is_first_chunk}) = 1
                /\ Cardinality({k \in 1..n : chunks[k].metadata.is_last_chunk}) = 1

\* a page of one chunk, first and last at once, after a page without text
C17_Witness ==
    /\ sp.pc = "stitch" /\ sp.i = 1
    /\ sp.file[1] = <<>> /\ sp.stitched = << <<>> >>
    /\ Len(sp.chunks) = 1
    /\ sp.chunks[1].metadata.is_first_chunk /\ sp.chunks[1].metadata.is_last_chunk

\* C18: for every page, add_neighbouring_content returned one chunk per chunk
\* of the page, in the same order, with has_previous set on all but the first
\* and has_next on all but the last, whatever the other pages hold.
C18_NeighbourFlags ==
    \A p \in DOMAIN sp.stitched :
        LET enhanced_chunks == sp.stitched[p]
            n == Len(enhanced_chunks)
        IN  /\ n = Len(sp.file[p])
            /\ \A k \in 1..n :
                /\ enhanced_chunks[k].metadata.chunk.page = p
                /\ enhanced_chunks[k].metadata.chunk.chunk_index = k - 1
                /\ enhanced_chunks[k].metadata.has_previous = (k > 1)
                /\ enhanced_chunks[k].metadata.has_next = (k < n)

\* the second page was stitched after a first page that has chunks
C18_Witness ==
    /\ sp.pc = "done" /\ Len(sp.stitched) = 2
    /\ Len(sp.stitched[1]) = 2 /\ Len(sp.stitched[2]) = 2
    /\ ~sp.stitched[2][1].metadata.has_previous
    /\ ~sp.stitched[1][2].metadata.has_next
    /\ sp.stitched[2][1].page_content = <<"Current Content", "Next Context">>

(***************************************************************************)
(* The same bytes uploaded twice, under any names.  The bytes fix the      *)
(* hash, the pages and what the chunking makes of every page.              *)
(***************************************************************************)
\* per stitched chunk of a page: `chunk.page_content` is not empty
Flags(pieces, metadata) ==
    LET enhanced_chunks == add_neighbouring_content(split_into_chunks(pieces, metadata))
    IN  [k \in DOMAIN enhanced_chunks |-> enhanced_chunks[k].page_content # <<>>]

PageFlags(file, i) == Flags(file[i + 1], [page |-> i + 1, total_pages |-> Len(file)])

\* load_documents and process_page_parallel see what the bytes hold
FollowsContent ==
    /\ (ld.pc # "idle" /\ ld.error # "unreadable") => ld.total_pages = Len(content)
    /\ ld.pc \in {"loop", "gather", "tail", "final", "page_end"} =>
        /\ pp.total_chunks = Len(content[ld.i + 1])
        /\ \A k \in DOMAIN pp.content : pp.content[k] = PageFlags(content, ld.i)[k]

\* _calculate_file_hash of the same bytes
SameBytes == ld.pc # "idle" => ld'.file_hash = ld.file_hash

InitReingest ==
    /\ MetaQuiet /\ IndexQuiet /\ SearchQuiet /\ SplitQuiet /\ UiQuiet
    /\ up = NewUp(2)
    /\ ld = IdleLd
    /\ pp = IdlePp
    /\ progress = Zero
    /\ emitted = 0
    /\ store = [h \in Hashes |-> 0]
    /\ content \in SeqsUpTo(SeqsUpTo(Contents, SamePieces), SamePages) \ {<<>>}

NextReingest == Ingest(SamePages, SamePieces, FollowsContent' /\ SameBytes)

SpecReingest == InitReingest /\ [][NextReingest]_vars

RECURSIVE Units(_, _)
Units(file, i) ==
    IF i = Len(file) THEN 0
    ELSE Cardinality({k \in DOMAIN PageFlags(file, i) : PageFlags(file, i)[k]})
            + Units(file, i + 1)

\* C19: after two ingestions of the same bytes have returned, the vector
\* index holds twice the units of the file, all under the one hash, and, when
\* the save of the second ingestion succeeded, the Metadata Store holds one
\* record, under that hash, with the title of the second ingestion.
C19_Reingest ==
    (up.pc = "done" /\ up.results = <<"ok", "ok">>) =>
        LET hash == ld.file_hash IN
        /\ store = [h \in Hashes |-> IF h = hash THEN 2 * Units(content, 0) ELSE 0]
        /\ up.saved[2] =>
            /\ DOMAIN kv = {hash} /\ indexed_documents = {hash}
            /\ ParseRaw(kv[hash]).title = up.files[2]
            /\ ParseRaw(kv[hash]).file_hash = hash

\* both ingestions saved, the second under another name, and units were
\* written
C19_Witness ==
    /\ up.pc = "done" /\ up.results = <<"ok", "ok">>
    /\ up.saved = <<TRUE, TRUE>>
    /\ up.files[1] # up.files[2]
    /\ store[ld.file_hash] = 4

(***************************************************************************)
(* Listings from any content of the store: ids of the set with or without  *)
(* their record, records with or without their id.                         *)
(***************************************************************************)
InitList ==
    /\ IngestQuiet /\ IndexQuiet /\ SearchQuiet /\ SplitQuiet /\ UiQuiet /\ CorpusQuiet
    /\ redis = None
    /\ mcall = [c \in {Uploader} \cup Clients |-> IdleFrame]
    /\ calls = 0
    /\ indexed_documents \in SUBSET Hashes
    /\ \E present \in SUBSET Hashes : kv = [h \in present |-> ToJson(MetaSample(h))]

NextList ==
    \/ \E c \in Clients, reachable \in BOOLEAN :
        ListCall(c, reachable) /\ Budget /\ UNCHANGED <<ingestVars, indexVars, searchVars, splitVars, uiVars, corpusVars>>
    \/ \E c \in Clients, reachable \in BOOLEAN :
        ListSmembers(c, reachable) /\ UNCHANGED clientRest
    \/ \E c \in Clients, reachable \in BOOLEAN :
        ListNext(c, reachable) /\ UNCHANGED clientRest

SpecList == InitList /\ [][NextList]_vars

\* C20: a listing that got the ids of the set asks for every one of them and
\* returns the records of exactly those ids whose read returned a record,
\* whether or not the read of another id failed or found nothing.
C20_ListBestEffort ==
    \A c \in Clients :
        LET f == mcall[c] IN
        (f.op = "list" /\ f.pc = "done" /\ f.visited # {}) =>
            /\ f.doc_ids = {}
            /\ f.outcome.kind = "return"
            /\ Len(f.outcome.docs) = Cardinality(f.read)
            /\ {f.outcome.docs[k].file_hash : k \in DOMAIN f.outcome.docs} = f.read

\* two listings over two ids returned one record each: one did not reach the
\* backend for the other id, one found no record under it
C20_Witness ==
    \E c, d \in Clients :
        LET f == mcall[c]
            g == mcall[d]
        IN  /\ f.op = "list" /\ f.pc = "done" /\ f.hitDown
            /\ Cardinality(f.visited) = 2 /\ Cardinality(f.read) = 1
            /\ Len(f.outcome.docs) = 1
            /\ g.op = "list" /\ g.pc = "done" /\ ~g.hitDown
            /\ Cardinality(g.visited) = 2 /\ Cardinality(g.read) = 1
            /\ Len(g.outcome.docs) = 1

(***************************************************************************)
(* C21: within a page the chunk writes are dispatched in batches: when a   *)
(* task is created, every chunk write of the earlier batches of the page   *)
(* has completed.                                                          *)
(***************************************************************************)
C21_BatchOrder ==
    [][Len(pp'.tasks) > Len(pp.tasks) =>
        \A k \in Dispatched(pp.content) :
            Ordinal(pp.content, k) <= batch_size * (pp.processed \div batch_size)
                => pp.writes[k] >= 1]_vars

\* the first task of the second batch has just been created
C21_Witness ==
    /\ pp.processed = batch_size + 1
    /\ Len(pp.tasks) = 1 /\ Pending(pp.tasks) # {}
    /\ \A k \in Dispatched(pp.content) :
        Ordinal(pp.content, k) <= batch_size => pp.writes[k] >= 1

(***************************************************************************)
(* C22: the DocumentMetadata of a file is saved only after every chunk     *)
(* write dispatched for any of its pages has completed, and a task of a    *)
(* page is created only after every chunk write of the earlier pages has   *)
(* completed.                                                              *)
(***************************************************************************)
C22_SaveAfterWrites ==
    [][/\ (ld.pc = "save" /\ ld'.pc = "saving")
            => ld.written = ld.dispatched /\ Pending(pp.tasks) = {}
       /\ Len(pp'.tasks) > Len(pp.tasks)
            => ld.written - Total(pp.writes) = ld.dispatched - pp.processed]_vars

\* the save of a two-page file is called after writes on both pages, and a
\* task of the second page has been created after writes of the first
C22_Witness ==
    /\ ld.pc = "saving" /\ ld.total_pages >= 2
    /\ ld.dispatched > pp.processed /\ pp.processed > 0
    /\ ld.written = ld.dispatched /\ Total(pp.writes) = pp.processed

(***************************************************************************)
(* C23: the within-page progress is a completion fraction: whenever        *)
(* process_page_parallel emits processed/total_chunks*100, at least        *)
(* `processed` chunk writes of the page have completed.                    *)
(***************************************************************************)
C23_ProgressIsCompletion ==
    [][(emitted' = emitted + 1 /\ ld.pc \in {"loop", "gather"})
            => Total(pp'.writes) >= pp'.processed]_vars

(***************************************************************************)
(* C24: for a document whose every page has at least one indexed chunk,    *)
(* load_documents emits exactly one progress value per indexed chunk, the  *)
(* last of them 100.                                                       *)
(***************************************************************************)
C24_OneValuePerChunk ==
    (ld.pc \in {"save", "saving", "returned"} /\ ld.blank = 0) =>
        /\ emitted = ld.dispatched
        /\ progress = Hundred

(***************************************************************************)
(* Searches that find more results than the context takes: up to           *)
(* TopResults results, the first DirectK of them from the similarity       *)
(* retriever, with or without a score.                                     *)
(***************************************************************************)
TopScores == {<<>>, <<MaxScore>>}

InitSearchTop ==
    /\ MetaQuiet /\ IngestQuiet /\ IndexQuiet /\ SplitQuiet /\ UiQuiet /\ CorpusQuiet
    /\ \E n \in 0..TopResults :
        \E texts \in TextLists(n), scores \in [1..n -> TopScores] :
            LET d == Min({n, DirectK}) IN
            /\ n - d <= MmrK
            /\ sv = NewSearch([k \in 1..d |-> Doc(texts[k], scores[k])],
                              [k \in 1..(n - d) |->
                                    Doc(texts[d + k], scores[d + k])])

SpecSearchTop == InitSearchTop /\ [][NextSearch]_vars

(***************************************************************************)
(* C25: the context of a search holds the texts of the first min(5, n)     *)
(* results of the deduplicated and sorted list of n results, in that       *)
(* order, and the list returned is that whole list: one result per         *)
(* distinct text found, by descending score.                               *)
(***************************************************************************)
C25_ContextTopFive ==
    sv.pc = "done" =>
        LET results == sv.unique_results
            n == Len(results)
        IN  /\ Len(sv.context) = Min({5, n})
            /\ \A k \in 1..Len(sv.context) : sv.context[k] = results[k].page_content
            /\ TextsOf(results) = TextsOf(sv.direct_results \o sv.mmr_results)
            /\ n = Cardinality(TextsOf(results))
            /\ \A k \in 1..(n - 1) : ScoreOf(results[k]) >= ScoreOf(results[k + 1])

\* six results are returned, the sort moved the last one found to the front,
\* and the context stops after five
C25_Witness ==
    /\ sv.pc = "done"
    /\ Len(sv.unique_results) > 5 /\ Len(sv.context) = 5
    /\ sv.mmr_results # <<>>
    /\ sv.unique_results[1] = sv.mmr_results[Len(sv.mmr_results)]

(***************************************************************************)
(* The ingestion of one file by a consumer that may stop iterating; the    *)
(* event loop goes on running and runs every task that is ready.           *)
(***************************************************************************)
NextStop ==
    \/ Ingest(MaxPages, MaxChunks, TRUE)
    \/ Stop /\ UNCHANGED <<metaVars, indexVars, searchVars, splitVars, uiVars, content, store>>

SpecStop == Init /\ [][NextStop]_vars

SpecStopFair ==
    /\ SpecStop
    /\ WF_vars(RunTask /\ UNCHANGED <<metaVars, indexVars, searchVars, splitVars, uiVars, content>>)

(***************************************************************************)
(* C26: when the consumer stops consuming the progress values of           *)
(* load_documents before the end, every chunk write already dispatched     *)
(* still runs to completion, and no DocumentMetadata record is saved for   *)
(* the file.                                                               *)
(***************************************************************************)
C26_StopKeepsWrites ==
    /\ [](ld.pc = "stopped" =>
            /\ mcall[Uploader] = IdleFrame
            /\ ld.file_hash \notin DOMAIN kv
            /\ ld.file_hash \notin indexed_documents)
    /\ (ld.pc = "stopped") ~> (ld.pc = "stopped" /\ Pending(pp.tasks) = {})

\* two tasks were pending when the consumer stopped, and both have run
C26_Witness ==
    /\ ld.pc = "stopped"
    /\ Len(pp.tasks) = 2 /\ Pending(pp.tasks) = {}
    /\ \E k \in DOMAIN pp.tasks : pp.tasks[k].state = "done"
    /\ kv = <<>> /\ indexed_documents = {}

(***************************************************************************)
(* C27: no failure inside the ingestion is swallowed: whenever             *)
(* load_documents has ended its progress values without raising, its save  *)
(* succeeded and get_document_metadata(file_hash) returns the              *)
(* DocumentMetadata of the file.                                           *)
(***************************************************************************)
C27_NothingSwallowed ==
    ld.pc = "returned" =>
        /\ up.saved[Len(up.saved)]
        /\ GetValue(ld.file_hash) =
                <<DocumentMetadata(ld.file_path, ld.total_pages, ld.chunk_count,
                                   ld.file_hash)>>

(***************************************************************************)
(* C28: in an ingestion without error every chunk of every page whose      *)
(* stitched content is not empty is written to the index exactly once,     *)
(* and a chunk whose stitched content is empty is never written: this      *)
(* holds of a page from the end of its loop on, and the writes of a        *)
(* returned ingestion are as many as the tasks it created.                 *)
(***************************************************************************)
C28_WrittenOnce ==
    /\ ld.pc \in {"final", "page_end", "page", "save", "saving", "returned"} =>
        /\ Len(pp.content) = pp.total_chunks
        /\ \A k \in 1..pp.total_chunks :
            pp.writes[k] = IF pp.content[k] THEN 1 ELSE 0
    /\ ld.pc = "returned" => ld.written = ld.dispatched

\* a returned ingestion of two pages whose last page has a written chunk
\* after a skipped one
C28_Witness ==
    /\ ld.pc = "returned" /\ ld.total_pages = 2
    /\ ld.written > Total(pp.writes)
    /\ \E k \in 2..pp.total_chunks : ~pp.content[k - 1] /\ pp.writes[k] = 1

(***************************************************************************)
(* Concurrent saves and deletes against a Redis that stays reachable.      *)
(***************************************************************************)
NextRace ==
    \/ \E c \in Clients, h \in Hashes :
        SaveCall(c, h, <<MetaSample(h)>>, TRUE) /\ Budget /\ UNCHANGED <<ingestVars, indexVars, searchVars, splitVars, uiVars, corpusVars>>
    \/ \E c \in Clients, h \in Hashes :
        DeleteCall(c, h, TRUE) /\ Budget /\ UNCHANGED <<ingestVars, indexVars, searchVars, splitVars, uiVars, corpusVars>>
    \/ \E c \in Clients : SaveSet(c, TRUE) /\ UNCHANGED clientRest
    \/ \E c \in Clients : SaveSadd(c, TRUE) /\ UNCHANGED clientRest
    \/ \E c \in Clients : DeleteKey(c, TRUE) /\ UNCHANGED clientRest
    \/ \E c \in Clients : DeleteSrem(c, TRUE) /\ UNCHANGED clientRest

SpecRace == InitMeta /\ [][NextRace]_vars

(***************************************************************************)
(* C29: in every state in which no save and no delete is in progress,      *)
(* whatever the interleaving of the concurrent saves and deletes that led  *)
(* to it, a hash is a member of indexed_documents if and only if a record  *)
(* exists under its key.                                                   *)
(***************************************************************************)
C29_QuiescentConsistent ==
    (\A c \in Clients : mcall[c].pc \in {"idle", "done"}) =>
        \A h \in Hashes : h \in indexed_documents <=> h \in DOMAIN kv

(***************************************************************************)
(* The documents tab over a store that holds the records of completed      *)
(* ingestions: each under its hash, a member of indexed_documents, with    *)
(* the file's name as its title.                                           *)
(***************************************************************************)
InitUi ==
    /\ IngestQuiet /\ IndexQuiet /\ SearchQuiet /\ SplitQuiet /\ UiQuiet /\ CorpusQuiet
    /\ redis = None
    /\ mcall = [c \in {Uploader} \cup Clients |-> IdleFrame]
    /\ calls = 0
    /\ \E present \in SUBSET Hashes : \E title \in [present -> Titles] :
        /\ indexed_documents = present
        /\ kv = [h \in present |-> ToJson(DocumentMetadata(title[h], 1, 1, h))]

NextUi ==
    \/ UpdateCall /\ UNCHANGED <<calls, ingestVars, indexVars, searchVars, splitVars, corpusVars>>
    \/ \E reachable \in BOOLEAN :
        ListSmembers(Viewer, reachable) /\ UNCHANGED clientRest
    \/ \E reachable \in BOOLEAN :
        ListNext(Viewer, reachable) /\ UNCHANGED clientRest
    \/ UpdateReturn /\ UNCHANGED <<ingestVars, indexVars, searchVars, splitVars, corpusVars>>
    \/ ShowCall /\ UNCHANGED <<calls, ingestVars, indexVars, searchVars, splitVars, corpusVars>>
    \/ \E reachable \in BOOLEAN :
        GetRead(Viewer, reachable) /\ UNCHANGED clientRest
    \/ ShowReturn /\ UNCHANGED <<ingestVars, indexVars, searchVars, splitVars, corpusVars>>

SpecUi == InitUi /\ [][NextUi]_vars

(***************************************************************************)
(* C30: for every document shown in the documents list, selecting its row  *)
(* makes show_document_details return that document's metadata, not        *)
(* 'Document Not Found' (Redis answering the lookup).                      *)
(***************************************************************************)
C30_RowShowsDocument ==
    (ui.pc = "shown" /\ ~mcall[Viewer].hitDown) =>
        /\ ui.details # NotFound
        /\ ui.details.doc_info = <<ui.listed[ui.row]>>

=============================================================================
